---- MODULE Spec2Model ----
(***************************************************************************)
(* Hot-reloading asset cache of mulay-gfx: AssetManager<Shader>            *)
(* (src/src/assets/manager.rs), the Shader asset (src/src/assets/assets.rs)*)
(* the AssetsWatcher (src/src/assets/watcher.rs) and the hot-reload tick   *)
(* of main (src/src/main.rs).                                              *)
(***************************************************************************)
EXTENDS Integers, Sequences, FiniteSets, TLC

(***************************************************************************)
(* Bounds of the model.                                                    *)
(***************************************************************************)
\* successful load_asset calls in one behaviour (cells ever allocated)
MaxLoads == 2
\* names the GL context can hand out
MaxGlNames == 3
\* length of the stale-path buffer
MaxStale == 2
\* callbacks registered in the manager, over all asset IDs
MaxCallbacks == 2

(***************************************************************************)
(* Strings.  A Rust String / PathBuf is modelled by its parts: the         *)
(* directory prefix ("" for a relative path), the file stem and the        *)
(* extension ("" for none).  Asset IDs are strings too, so that the code's *)
(* comparisons of a path with an ID are comparisons of like with like.     *)
(***************************************************************************)
Str(dir, stem, ext) == [dir |-> dir, stem |-> stem, ext |-> ext]

EmptyStr == Str("", "", "")

\* the process's working directory
Cwd == "/cwd"

\* Path::is_absolute
is_absolute(p) == p.dir # ""

\* the absolute form of a path: what the spec calls "canonicalized", and what
\* the notify backend reports in its events (current_dir().join(path))
Canonical(p) == IF is_absolute(p) THEN p ELSE [p EXCEPT !.dir = Cwd]

\* Path::extension: "None" when the path has no extension
extension(p) == IF p.ext = "" THEN "None" ELSE p.ext

IDs == {Str("", "v", ""), Str("", "f", "")}

\* the paths a caller passes to load_asset
Paths ==
    {Str("", "tri", "vert"), Str(Cwd, "tri", "vert"), Str(Cwd, "tri", "frag"),
     Str("", "notes", "txt"), Str("", "Makefile", "")}

\* the paths observer events carry: absolute ones
EventPaths == {Canonical(p) : p \in {q \in Paths : extension(q) # "None"}}

\* what an attempt to read and compile a source file can meet
FileStates == {"unreadable", "nul_byte", "bad_glsl", "good_glsl"}

\* fn() values a caller registers
CallbackFns == {"cb1", "cb2"}

\* the observer's event kinds (notify::EventKind), and an observer error
EventKinds ==
    {"Modify(Any)", "Modify(Data)", "Modify(Name)", "Create", "Remove", "Error"}

GlNames == 1..MaxGlNames

VERTEX_SHADER == "VERTEX_SHADER"
FRAGMENT_SHADER == "FRAGMENT_SHADER"

(***************************************************************************)
(* State.                                                                  *)
(***************************************************************************)
VARIABLES
    assets,                     \* AssetManager.assets: ID -> handle (cell index)
    callbacks,                  \* AssetManager.callbacks: ID -> Seq(fn())
    asset_file_paths,           \* AssetManager.asset_file_paths
    file_path_to_asset_id_map,  \* AssetManager.file_path_to_asset_id_map
    heap,                       \* the Arc<Mutex<Shader>> cells ever allocated
    gl_shaders,                 \* shader objects alive in the GL context
    stale_paths,                \* AssetsWatcher.stale_paths
    tick_pc,                    \* position of main in its hot-reload tick, or in
                                \* a call that holds a lock
    snapshot,                   \* main's local stale_paths of the tick
    fired,                      \* callbacks invoked by the operation under way
    ret                         \* the call that has just returned, and its result

vars == <<assets, callbacks, asset_file_paths, file_path_to_asset_id_map,
          heap, gl_shaders, stale_paths, tick_pc, snapshot, fired, ret>>

\* HashMap operations
MapInsert(m, k, v) == [x \in DOMAIN m \cup {k} |-> IF x = k THEN v ELSE m[x]]
MapRemove(m, k) == [x \in DOMAIN m \ {k} |-> m[x]]
EmptyMap == [x \in {} |-> 0]

(***************************************************************************)
(* The GL context.                                                         *)
(***************************************************************************)
\* gl::CreateShader: a name that no live shader object has (the least one)
glCreateShader(gl) ==
    CHOOSE n \in GlNames \ gl : \A k \in GlNames \ gl : n <= k

\* gl::DeleteShader
glDeleteShader(gl, name) == gl \ {name}

(***************************************************************************)
(* Shader (impl Asset for Shader).  `file` is what reading and compiling   *)
(* the source file meets; `gl` the live shader objects.                    *)
(***************************************************************************)
Ok(v) == [tag |-> "Ok", val |-> v]
Err(kind) == [tag |-> "Err", val |-> kind]

\* Shader::compile, with the name of the compiled shader object: a nul byte fails before any GL call; a compilation
\* error returns without deleting the shader object it created
Shader_compile(file, gl) ==
    IF file = "nul_byte"
    THEN [res |-> Err("MalformedSource"), shader_id |-> 0, gl |-> gl]
    ELSE LET shader_id == glCreateShader(gl) IN
         IF file = "bad_glsl"
         THEN [res |-> Err("CompilationError"), shader_id |-> 0,
               gl |-> gl \cup {shader_id}]
         ELSE [res |-> Ok("shader_id"), shader_id |-> shader_id,
               gl |-> gl \cup {shader_id}]

NoShader ==
    [id |-> EmptyStr, shader_id |-> 0, kind |-> "", src_file_path |-> EmptyStr,
     is_loaded |-> FALSE, is_stale |-> FALSE]

\* Shader::new leaving is_loaded false in the shader it returns
Shader_new_not_loaded(id, file_path, file, gl) ==
    IF extension(file_path) = "None"
    THEN [res |-> Err("InvalidFileExtension"), shader |-> NoShader, gl |-> gl]
    ELSE IF extension(file_path) \notin {"vert", "frag"}
    THEN [res |-> Err("InvalidFileExtension"), shader |-> NoShader, gl |-> gl]
    ELSE IF file = "unreadable"
    THEN [res |-> Err("LoadingFailed"), shader |-> NoShader, gl |-> gl]
    ELSE LET kind == IF extension(file_path) = "vert"
                     THEN VERTEX_SHADER ELSE FRAGMENT_SHADER
             c == Shader_compile(file, gl)
         IN  IF c.res.tag = "Err"
             THEN [res |-> Err("LoadingFailed"), shader |-> NoShader, gl |-> c.gl]
             ELSE [res |-> Ok("shader"),
                   shader |-> [id |-> id, shader_id |-> c.shader_id, kind |-> kind,
                               src_file_path |-> file_path,
                               is_loaded |-> FALSE, is_stale |-> FALSE],
                   gl |-> c.gl]

\* Shader::new
Shader_new(id, file_path, file, gl) ==
    IF extension(file_path) = "None"
    THEN [res |-> Err("InvalidFileExtension"), shader |-> NoShader, gl |-> gl]
    ELSE IF extension(file_path) \notin {"vert", "frag"}
    THEN [res |-> Err("InvalidFileExtension"), shader |-> NoShader, gl |-> gl]
    ELSE IF file = "unreadable"
    THEN [res |-> Err("LoadingFailed"), shader |-> NoShader, gl |-> gl]
    ELSE LET kind == IF extension(file_path) = "vert"
                     THEN VERTEX_SHADER ELSE FRAGMENT_SHADER
             c == Shader_compile(file, gl)
         IN  IF c.res.tag = "Err"
             THEN [res |-> Err("LoadingFailed"), shader |-> NoShader, gl |-> c.gl]
             ELSE [res |-> Ok("shader"),
                   shader |-> [id |-> id, shader_id |-> c.shader_id, kind |-> kind,
                               src_file_path |-> file_path,
                               is_loaded |-> TRUE, is_stale |-> FALSE],
                   gl |-> c.gl]

\* Shader::reload deleting the old shader object before it compiles the new
\* one: a failed compilation leaves the asset without its shader object
Shader_reload_deleting_first(self, file, gl) ==
    IF ~self.is_loaded
    THEN [res |-> Err("NotLoaded"), names |-> self.id, shader |-> self, gl |-> gl]
    ELSE IF file = "unreadable"
    THEN [res |-> Err("LoadingFailed"), names |-> self.id, shader |-> self,
          gl |-> gl]
    ELSE LET c == Shader_compile(file, glDeleteShader(gl, self.shader_id)) IN
         IF c.res.tag = "Err"
         THEN [res |-> Err("ReloadingFailed"), names |-> self.src_file_path,
               shader |-> [self EXCEPT !.shader_id = 0], gl |-> c.gl]
         ELSE [res |-> Ok("()"), names |-> EmptyStr,
               shader |-> [self EXCEPT !.shader_id = c.shader_id, !.is_stale = FALSE],
               gl |-> c.gl]

\* Shader::reload; `names` is the string that the message of its error
\* embeds: the asset's id, or for ReloadingFailed its source path
Shader_reload(self, file, gl) ==
    IF ~self.is_loaded
    THEN [res |-> Err("NotLoaded"), names |-> self.id, shader |-> self, gl |-> gl]
    ELSE IF file = "unreadable"
    THEN [res |-> Err("LoadingFailed"), names |-> self.id, shader |-> self,
          gl |-> gl]
    ELSE LET c == Shader_compile(file, gl) IN
         IF c.res.tag = "Err"
         THEN [res |-> Err("ReloadingFailed"), names |-> self.src_file_path,
               shader |-> self, gl |-> c.gl]
         ELSE [res |-> Ok("()"), names |-> EmptyStr,
               shader |-> [self EXCEPT !.shader_id = c.shader_id, !.is_stale = FALSE],
               gl |-> glDeleteShader(c.gl, self.shader_id)]

\* Shader::destroy leaving is_loaded as it is
Shader_destroy_keeping_loaded(self, gl) ==
    [res |-> Ok("()"),
     shader |-> [self EXCEPT !.id = EmptyStr, !.src_file_path = EmptyStr],
     gl |-> glDeleteShader(gl, self.shader_id)]

\* Shader::destroy
Shader_destroy(self, gl) ==
    [res |-> Ok("()"),
     shader |-> [self EXCEPT !.id = EmptyStr, !.src_file_path = EmptyStr,
                             !.is_loaded = FALSE],
     gl |-> glDeleteShader(gl, self.shader_id)]

\* Shader::is_loaded
Shader_is_loaded(self) == self.is_loaded

\* Shader::get_src_file_path
Shader_get_src_file_path(self) == self.src_file_path

\* Shader::get_shader_id
Shader_get_shader_id(self) == self.shader_id

\* whether reading and compiling `file` calls gl::CreateShader
NeedsGlName(file) == file \in {"bad_glsl", "good_glsl"}

(***************************************************************************)
(* AssetManager<Shader>.  The operations are functions of the manager's    *)
(* state m (its fields, the cells its handles point to, the GL context and *)
(* the log of invoked callbacks) to the new state and the returned value.  *)
(* A cell is the Mutex (its poison flag and the thread that holds it, ""   *)
(* for none) around the Shader.  main never calls start_watcher and uses   *)
(* the AssetsWatcher beside the manager, so asset_watcher is None in       *)
(* load_asset; the content of the manager's own stale_asset_paths is an    *)
(* input of watch_for_changes.                                             *)
(***************************************************************************)
Mgr ==
    [assets |-> assets, callbacks |-> callbacks,
     asset_file_paths |-> asset_file_paths,
     file_path_to_asset_id_map |-> file_path_to_asset_id_map,
     heap |-> heap, gl_shaders |-> gl_shaders, fired |-> fired]

\* AssetManager::new
AssetManager_new ==
    [assets |-> EmptyMap, callbacks |-> EmptyMap, asset_file_paths |-> <<>>,
     file_path_to_asset_id_map |-> EmptyMap,
     heap |-> <<>>, gl_shaders |-> {}, fired |-> <<>>]

\* Arc::new(Mutex::new(asset)): the Mutex is unlocked (held by no thread) and
\* not poisoned
NewCell(asset) == [poisoned |-> FALSE, held |-> "", data |-> asset]

\* load_asset taking the asset registered under the ID out of the forward
\* map before it constructs the new one
load_asset_removing_previous(m, id, file_path, file) ==
    LET a == Shader_new(id, file_path, file, m.gl_shaders) IN
    IF a.res.tag = "Ok"
    THEN LET h == Len(m.heap) + 1 IN
         [m |-> [m EXCEPT
                   !.assets = MapInsert(@, id, h),
                   !.heap = Append(@, NewCell(a.shader)),
                   !.asset_file_paths = Append(@, file_path),
                   !.file_path_to_asset_id_map = MapInsert(@, file_path, id),
                   !.gl_shaders = a.gl],
          res |-> Ok("handle"), handle |-> h]
    ELSE [m |-> [m EXCEPT !.assets = MapRemove(@, id), !.gl_shaders = a.gl],
          res |-> a.res, handle |-> 0]

\* AssetManager::load_asset; a handle is the index of its cell, 0 for none
load_asset(m, id, file_path, file) ==
    LET a == Shader_new(id, file_path, file, m.gl_shaders) IN
    IF a.res.tag = "Ok"
    THEN LET h == Len(m.heap) + 1 IN
         [m |-> [m EXCEPT
                   !.assets = MapInsert(@, id, h),
                   !.heap = Append(@, NewCell(a.shader)),
                   !.asset_file_paths = Append(@, file_path),
                   !.file_path_to_asset_id_map = MapInsert(@, file_path, id),
                   !.gl_shaders = a.gl],
          res |-> Ok("handle"), handle |-> h]
    ELSE [m |-> [m EXCEPT !.gl_shaders = a.gl], res |-> a.res, handle |-> 0]

\* AssetManager::get_asset
get_asset(m, id) ==
    IF id \in DOMAIN m.assets
    THEN [res |-> [tag |-> "Some", val |-> "handle"], handle |-> m.assets[id]]
    ELSE [res |-> [tag |-> "None", val |-> ""], handle |-> 0]

\* reload_asset putting the reloaded asset into a new cell under the ID
reload_asset_replacing_cell(m, id, file) ==
    IF id \in DOMAIN m.assets
    THEN LET h == m.assets[id] IN
         IF ~m.heap[h].poisoned
         THEN LET r == Shader_reload(m.heap[h].data, file, m.gl_shaders) IN
              [m |-> IF r.res.tag = "Ok"
                     THEN [m EXCEPT !.heap = Append(@, NewCell(r.shader)),
                                    !.assets[id] = Len(m.heap) + 1,
                                    !.gl_shaders = r.gl]
                     ELSE [m EXCEPT !.gl_shaders = r.gl],
               res |-> IF r.res.tag = "Ok" THEN Ok("Some(())") ELSE r.res,
               names |-> r.names]
         ELSE [m |-> m, res |-> Err("Poisoned"), names |-> EmptyStr]
    ELSE [m |-> m, res |-> Ok("None"), names |-> EmptyStr]

\* reload_asset locking every cell of the manager
reload_asset_lock_all(m, id) == DOMAIN m.heap

\* AssetManager::reload_asset, its ptr.lock(): the cells whose Mutex the call
\* locks
reload_asset_lock(m, id) ==
    IF id \in DOMAIN m.assets THEN {m.assets[id]} ELSE {}

\* AssetManager::reload_asset; the message of its own error ("asset lock
\* poisoned") embeds no string
reload_asset(m, id, file) ==
    IF id \in DOMAIN m.assets
    THEN LET h == m.assets[id] IN
         IF ~m.heap[h].poisoned
         THEN LET r == Shader_reload(m.heap[h].data, file, m.gl_shaders) IN
              [m |-> [m EXCEPT !.heap[h].data = r.shader, !.gl_shaders = r.gl],
               res |-> IF r.res.tag = "Ok" THEN Ok("Some(())") ELSE r.res,
               names |-> r.names]
         ELSE [m |-> m, res |-> Err("Poisoned"), names |-> EmptyStr]
    ELSE [m |-> m, res |-> Ok("None"), names |-> EmptyStr]

\* AssetManager::destroy_asset going on to remove the ID's entries when the
\* Mutex is poisoned, before it returns the error
destroy_asset_removing_when_poisoned(m, id) ==
    IF id \in DOMAIN m.assets
    THEN LET h == m.assets[id]
             asset_id == id
             n == [m EXCEPT
                     !.assets = MapRemove(@, asset_id),
                     !.callbacks = MapRemove(@, asset_id),
                     !.asset_file_paths = SelectSeq(@, LAMBDA path : path # asset_id),
                     !.file_path_to_asset_id_map = MapRemove(@, asset_id)]
         IN  IF ~m.heap[h].poisoned
             THEN LET d == Shader_destroy(m.heap[h].data, m.gl_shaders) IN
                  [m |-> [n EXCEPT !.heap[h].data = d.shader, !.gl_shaders = d.gl],
                   res |-> Ok("Some(())")]
             ELSE [m |-> n, res |-> Err("Poisoned")]
    ELSE [m |-> m, res |-> Ok("None")]

\* AssetManager::destroy_asset removing the ID's entries before it looks the
\* ID up: an unknown ID loses its callback list
destroy_asset_removing_first(m, id) ==
    LET asset_id == id
        n == [m EXCEPT
                !.assets = MapRemove(@, asset_id),
                !.callbacks = MapRemove(@, asset_id),
                !.asset_file_paths = SelectSeq(@, LAMBDA path : path # asset_id),
                !.file_path_to_asset_id_map = MapRemove(@, asset_id)]
    IN  IF id \in DOMAIN m.assets
        THEN LET h == m.assets[id] IN
             IF ~m.heap[h].poisoned
             THEN LET d == Shader_destroy(m.heap[h].data, m.gl_shaders) IN
                  [m |-> [n EXCEPT !.heap[h].data = d.shader, !.gl_shaders = d.gl],
                   res |-> Ok("Some(())")]
             ELSE [m |-> m, res |-> Err("Poisoned")]
        ELSE [m |-> n, res |-> Ok("None")]

\* AssetManager::destroy_asset
destroy_asset(m, id) ==
    IF id \in DOMAIN m.assets
    THEN LET h == m.assets[id] IN
         IF ~m.heap[h].poisoned
         THEN LET d == Shader_destroy(m.heap[h].data, m.gl_shaders)
                  asset_id == id
              IN  [m |-> [m EXCEPT
                            !.heap[h].data = d.shader,
                            !.gl_shaders = d.gl,
                            !.assets = MapRemove(@, asset_id),
                            !.callbacks = MapRemove(@, asset_id),
                            !.asset_file_paths =
                                SelectSeq(@, LAMBDA path : path # asset_id),
                            !.file_path_to_asset_id_map = MapRemove(@, asset_id)],
                   res |-> Ok("Some(())")]
         ELSE [m |-> m, res |-> Err("Poisoned")]
    ELSE [m |-> m, res |-> Ok("None")]

\* AssetManager::is_asset_loaded
is_asset_loaded(m, id) ==
    IF id \in DOMAIN m.assets
    THEN LET h == m.assets[id] IN
         IF ~m.heap[h].poisoned
         THEN [m |-> m,
               res |-> Ok(IF Shader_is_loaded(m.heap[h].data)
                          THEN "Some(true)" ELSE "Some(false)")]
         ELSE [m |-> m, res |-> Err("Poisoned")]
    ELSE [m |-> m, res |-> Ok("None")]

\* register_asset_reload_callback inserting a new list under the ID whether
\* or not the ID has one
register_asset_reload_callback_replacing(m, target_asset_id, callback) ==
    [m EXCEPT !.callbacks = MapInsert(@, target_asset_id, <<callback>>)]

\* AssetManager::register_asset_reload_callback
register_asset_reload_callback(m, target_asset_id, callback) ==
    IF target_asset_id \in DOMAIN m.callbacks
    THEN [m EXCEPT !.callbacks[target_asset_id] = Append(@, callback)]
    ELSE [m EXCEPT !.callbacks = MapInsert(@, target_asset_id, <<callback>>)]

\* for func in callbacks { func(); }: each call is logged with the asset ID
RECURSIVE InvokeAll(_, _, _)
InvokeAll(log, asset_id, funcs) ==
    IF funcs = <<>> THEN log
    ELSE InvokeAll(Append(log, <<asset_id, Head(funcs)>>), asset_id, Tail(funcs))

\* AssetManager::run_asset_reload_callbacks
run_asset_reload_callbacks(m, asset_id, file) ==
    LET r == reload_asset(m, asset_id, file) IN
    IF r.res.tag = "Err"
    THEN r
    ELSE [m |-> IF asset_id \in DOMAIN r.m.callbacks
                THEN [r.m EXCEPT !.fired =
                        InvokeAll(@, asset_id, r.m.callbacks[asset_id])]
                ELSE r.m,
          res |-> Ok("Some(())"), names |-> EmptyStr]

\* AssetManager::watch_for_changes leaving its loop at a path that the reverse
\* index does not hold (break for continue)
RECURSIVE watch_for_changes_stopping(_, _, _)
watch_for_changes_stopping(m, paths, files) ==
    IF paths = <<>> THEN [m |-> m, res |-> Ok("()"), failed |-> EmptyStr]
    ELSE LET asset_path == Head(paths) IN
         IF asset_path \notin DOMAIN m.file_path_to_asset_id_map
         THEN [m |-> m, res |-> Ok("()"), failed |-> EmptyStr]
         ELSE LET asset_id == m.file_path_to_asset_id_map[asset_path]
                  r == run_asset_reload_callbacks(m, asset_id, Head(files))
              IN  IF r.res.tag = "Err"
                  THEN [m |-> r.m, res |-> Err("AssetReloadError"),
                        failed |-> r.names]
                  ELSE watch_for_changes_stopping(r.m, Tail(paths), Tail(files))

\* AssetManager::watch_for_changes: its loop over `paths`, the content of the
\* manager's stale_asset_paths; files[i] is what the reload of the i-th path
\* meets.  Its error is "unable to reload asset" around the asset's error:
\* `failed` is the string that this chain of messages embeds
RECURSIVE watch_for_changes(_, _, _)
watch_for_changes(m, paths, files) ==
    IF paths = <<>> THEN [m |-> m, res |-> Ok("()"), failed |-> EmptyStr]
    ELSE LET asset_path == Head(paths) IN
         IF asset_path \notin DOMAIN m.file_path_to_asset_id_map
         THEN watch_for_changes(m, Tail(paths), Tail(files))
         ELSE LET asset_id == m.file_path_to_asset_id_map[asset_path]
                  r == run_asset_reload_callbacks(m, asset_id, Head(files))
              IN  IF r.res.tag = "Err"
                  THEN [m |-> r.m, res |-> Err("AssetReloadError"),
                        failed |-> r.names]
                  ELSE watch_for_changes(r.m, Tail(paths), Tail(files))

\* the manager's stale_asset_paths after watch_for_changes over `paths`: the
\* function takes the read lock only, and nothing in the manager removes a
\* path from this buffer
stale_asset_paths_after(paths) == paths

\* AssetManager::file_paths_to_asset_ids, which main calls and manager.rs does
\* not define: the IDs the reverse index resolves the paths to, in the order
\* of the paths, an unmatched path skipped
RECURSIVE file_paths_to_asset_ids(_, _)
file_paths_to_asset_ids(m, paths) ==
    IF paths = <<>> THEN <<>>
    ELSE LET rest == file_paths_to_asset_ids(m, Tail(paths)) IN
         IF Head(paths) \in DOMAIN m.file_path_to_asset_id_map
         THEN <<m.file_path_to_asset_id_map[Head(paths)]>> \o rest
         ELSE rest

\* AssetManager::reload_assets_by_id, which main calls and manager.rs does not
\* define: each ID is reloaded and its callbacks are run, the first error
\* ends the batch; files[i] is what the reload of the i-th ID meets
RECURSIVE reload_assets_by_id(_, _, _)
reload_assets_by_id(m, ids, files) ==
    IF ids = <<>> THEN [m |-> m, res |-> Ok("()"), failed |-> EmptyStr]
    ELSE LET r == run_asset_reload_callbacks(m, Head(ids), Head(files)) IN
         IF r.res.tag = "Err"
         THEN [m |-> r.m, res |-> Err("AssetReloadError"), failed |-> Head(ids)]
         ELSE reload_assets_by_id(r.m, Tail(ids), Tail(files))

(***************************************************************************)
(* AssetsWatcher.                                                          *)
(***************************************************************************)
\* watcher_func in AssetsWatcher::new: the observer thread's callback
watcher_func(buf, event) ==
    IF event.kind = "Modify(Any)" THEN buf \o event.paths ELSE buf

\* get_stale_paths taking the paths out of the buffer
get_stale_paths_draining(buf) == [paths |-> buf, buf |-> <<>>]

\* AssetsWatcher::get_stale_paths: the returned Vec and the buffer after it
get_stale_paths(buf) == [paths |-> buf, buf |-> buf]

\* AssetsWatcher::clear_stale_paths
clear_stale_paths(buf) == <<>>

(***************************************************************************)
(* The program: a caller thread that calls the manager's and the watcher's *)
(* operations and runs the hot-reload tick of main, and the watcher's      *)
(* observer thread.  After a call the caller holds its result (ret) until  *)
(* it goes on (Continue).                                                  *)
(***************************************************************************)
SetMgr(m) ==
    /\ assets' = m.assets
    /\ callbacks' = m.callbacks
    /\ asset_file_paths' = m.asset_file_paths
    /\ file_path_to_asset_id_map' = m.file_path_to_asset_id_map
    /\ heap' = m.heap
    /\ gl_shaders' = m.gl_shaders
    /\ fired' = m.fired

mgr_vars == <<assets, callbacks, asset_file_paths, file_path_to_asset_id_map,
              heap, gl_shaders, fired>>

\* a returned call: the operation, its arguments, its result, and the handle
\* or the paths that come with the result
Returned(op, id, path, res, handle, paths) ==
    [op |-> op, id |-> id, path |-> path, res |-> res,
     handle |-> handle, paths |-> paths]

NoRet == Returned("", EmptyStr, EmptyStr, Ok("()"), 0, <<>>)

\* the caller is between two calls, outside a tick
Idle == tick_pc = "idle" /\ ret.op = ""

\* the Mutex of the asset registered under `id`, if any, is held by no thread:
\* ptr.lock() returns without waiting
LockFree(id) == id \in DOMAIN assets => heap[assets[id]].held = ""

\* a GL name is free when the compilation asks for one
GlAvailable(file) == NeedsGlName(file) => GlNames \ gl_shaders # {}

Init ==
    /\ assets = AssetManager_new.assets
    /\ callbacks = AssetManager_new.callbacks
    /\ asset_file_paths = AssetManager_new.asset_file_paths
    /\ file_path_to_asset_id_map = AssetManager_new.file_path_to_asset_id_map
    /\ heap = AssetManager_new.heap
    /\ gl_shaders = AssetManager_new.gl_shaders
    /\ fired = AssetManager_new.fired
    /\ stale_paths = <<>>
    /\ tick_pc = "idle"
    /\ snapshot = <<>>
    /\ ret = NoRet

\* the number of callbacks a callback map holds
RECURSIVE SumLen(_, _)
SumLen(m, S) ==
    IF S = {} THEN 0
    ELSE LET k == CHOOSE x \in S : TRUE IN Len(m[k]) + SumLen(m, S \ {k})

Registered(m) == SumLen(m, DOMAIN m)

LoadAsset(id, file_path, file) ==
    /\ Idle
    /\ Len(heap) < MaxLoads
    /\ GlAvailable(file)
    /\ LET r == load_asset(Mgr, id, file_path, file) IN
       /\ SetMgr(r.m)
       /\ ret' = Returned("load_asset", id, file_path, r.res, r.handle, <<>>)
    /\ UNCHANGED <<stale_paths, tick_pc, snapshot>>

GetAsset(id) ==
    /\ Idle
    /\ LET r == get_asset(Mgr, id) IN
       ret' = Returned("get_asset", id, EmptyStr, r.res, r.handle, <<>>)
    /\ UNCHANGED <<mgr_vars, stale_paths, tick_pc, snapshot>>

ReloadAsset(id, file) ==
    /\ Idle
    /\ LockFree(id)
    /\ GlAvailable(file)
    /\ LET r == reload_asset(Mgr, id, file) IN
       /\ SetMgr(r.m)
       /\ ret' = Returned("reload_asset", id, EmptyStr, r.res, 0, <<>>)
    /\ UNCHANGED <<stale_paths, tick_pc, snapshot>>

DestroyAsset(id) ==
    /\ Idle
    /\ LockFree(id)
    /\ LET r == destroy_asset(Mgr, id) IN
       /\ SetMgr(r.m)
       /\ ret' = Returned("destroy_asset", id, EmptyStr, r.res, 0, <<>>)
    /\ UNCHANGED <<stale_paths, tick_pc, snapshot>>

IsAssetLoaded(id) ==
    /\ Idle
    /\ LockFree(id)
    /\ LET r == is_asset_loaded(Mgr, id) IN
       /\ SetMgr(r.m)
       /\ ret' = Returned("is_asset_loaded", id, EmptyStr, r.res, 0, <<>>)
    /\ UNCHANGED <<stale_paths, tick_pc, snapshot>>

RegisterAssetReloadCallback(id, callback) ==
    /\ Idle
    /\ Registered(callbacks) < MaxCallbacks
    /\ SetMgr(register_asset_reload_callback(Mgr, id, callback))
    /\ ret' = Returned("register_asset_reload_callback", id, EmptyStr,
                       Ok("()"), 0, <<>>)
    /\ UNCHANGED <<stale_paths, tick_pc, snapshot>>

\* a call of get_stale_paths outside main's tick
GetStalePaths ==
    /\ Idle
    /\ LET r == get_stale_paths(stale_paths) IN
       /\ stale_paths' = r.buf
       /\ ret' = Returned("get_stale_paths", EmptyStr, EmptyStr,
                       Ok("paths"), 0, r.paths)
    /\ UNCHANGED <<mgr_vars, tick_pc, snapshot>>

\* a call of clear_stale_paths outside main's tick
ClearStalePaths ==
    /\ Idle
    /\ stale_paths' = clear_stale_paths(stale_paths)
    /\ ret' = Returned("clear_stale_paths", EmptyStr, EmptyStr, Ok("()"), 0, <<>>)
    /\ UNCHANGED <<mgr_vars, tick_pc, snapshot>>

\* the caller drops the result it holds and the log of the call
Continue ==
    /\ tick_pc = "idle"
    /\ ret.op # ""
    /\ ret' = NoRet
    /\ fired' = <<>>
    /\ UNCHANGED <<assets, callbacks, asset_file_paths, file_path_to_asset_id_map,
                   heap, gl_shaders, stale_paths, tick_pc, snapshot>>

\* main: let stale_paths = watcher.get_stale_paths();
TickDrain ==
    /\ Idle
    /\ LET r == get_stale_paths(stale_paths) IN
       /\ stale_paths' = r.buf
       /\ snapshot' = r.paths
    /\ tick_pc' = "reload"
    /\ UNCHANGED <<mgr_vars, ret>>

\* the tick going on to clear_stale_paths whatever reload_assets_by_id
\* returned (the error dropped instead of panic!)
TickReload_ignoring_error(files) ==
    /\ tick_pc = "reload"
    /\ \A i \in 1..Len(files) : GlAvailable(files[i])
    /\ LET asset_ids == file_paths_to_asset_ids(Mgr, snapshot)
           r == reload_assets_by_id(Mgr, asset_ids, files)
       IN
       /\ Len(files) = Len(asset_ids)
       /\ SetMgr(r.m)
       /\ ret' = Returned("reload_assets_by_id", r.failed, EmptyStr, r.res, 0, <<>>)
       /\ tick_pc' = "clear"
    /\ UNCHANGED <<stale_paths, snapshot>>

\* main: let asset_ids = file_paths_to_asset_ids(&stale_paths) and
\* reload_assets_by_id(&asset_ids); an error panics
TickReload(files) ==
    /\ tick_pc = "reload"
    /\ \A i \in 1..Len(files) : GlAvailable(files[i])
    /\ LET asset_ids == file_paths_to_asset_ids(Mgr, snapshot)
           r == reload_assets_by_id(Mgr, asset_ids, files)
       IN
       /\ Len(files) = Len(asset_ids)
       /\ SetMgr(r.m)
       /\ ret' = Returned("reload_assets_by_id", r.failed, EmptyStr, r.res, 0, <<>>)
       /\ tick_pc' = IF r.res.tag = "Ok" THEN "clear" ELSE "panicked"
    /\ UNCHANGED <<stale_paths, snapshot>>

\* main: if !stale_paths.is_empty() { watcher.clear_stale_paths(); }
TickClear ==
    /\ tick_pc = "clear"
    /\ stale_paths' = IF snapshot # <<>> THEN clear_stale_paths(stale_paths)
                      ELSE stale_paths
    /\ snapshot' = <<>>
    /\ tick_pc' = "idle"
    /\ ret' = NoRet
    /\ fired' = <<>>
    /\ UNCHANGED <<assets, callbacks, asset_file_paths, file_path_to_asset_id_map,
                   heap, gl_shaders>>

\* the observer thread reloading the assets of the event's paths itself,
\* through a reference to the manager
Observe_reloading(event) ==
    /\ tick_pc # "panicked"
    /\ Len(stale_paths) + Len(event.paths) <= MaxStale
    /\ GlAvailable("good_glsl")
    /\ stale_paths' = watcher_func(stale_paths, event)
    /\ SetMgr(watch_for_changes(Mgr, event.paths,
                                [i \in 1..Len(event.paths) |-> "good_glsl"]).m)
    /\ UNCHANGED <<tick_pc, snapshot, ret>>

\* the observer thread delivers one event to watcher_func
Observe(event) ==
    /\ tick_pc # "panicked"
    /\ Len(stale_paths) + Len(event.paths) <= MaxStale
    /\ stale_paths' = watcher_func(stale_paths, event)
    /\ UNCHANGED <<mgr_vars, tick_pc, snapshot, ret>>

\* the events the observer delivers: a kind and one or two absolute paths
Events ==
    [kind : EventKinds,
     paths : {<<p>> : p \in EventPaths} \cup {<<p, q>> : p, q \in EventPaths}]

\* a call of watch_for_changes, with `paths` in the manager's
\* stale_asset_paths (kept with the result: the call leaves them there)
WatchForChanges(paths, files) ==
    /\ Idle
    /\ \A i \in 1..Len(files) : GlAvailable(files[i])
    /\ LET r == watch_for_changes(Mgr, paths, files) IN
       /\ SetMgr(r.m)
       /\ ret' = Returned("watch_for_changes", r.failed, EmptyStr, r.res, 0, paths)
    /\ UNCHANGED <<stale_paths, tick_pc, snapshot>>

\* the paths a source file can be loaded from
ShaderPaths == {p \in Paths : extension(p) \in {"vert", "frag"}}

\* the contents of stale_asset_paths: no path, one path or two paths
PathLists ==
    LET P == ShaderPaths \cup EventPaths IN
    {<<>>} \cup {<<p>> : p \in P} \cup {<<p, q>> : p, q \in P}

\* the observer's events that change the buffer, on the shader files
ModifyEvents ==
    {e \in Events : /\ e.kind = "Modify(Any)"
                    /\ \A i \in 1..Len(e.paths) : e.paths[i] \in ShaderPaths}

\* the outcomes of reading and compiling that decide a reload
ReloadFiles == {"good_glsl", "unreadable"}

\* what the reloads of a batch meet: a source that compiles, an unreadable
\* file (LoadingFailed), a source that fails to compile (ReloadingFailed)
BatchFiles == {"good_glsl", "unreadable", "nul_byte"}

\* the manager with its reload callbacks, under any caller
Next ==
    \/ \E id \in IDs, file_path \in ShaderPaths : LoadAsset(id, file_path, "good_glsl")
    \/ \E id \in IDs : GetAsset(id)
    \/ \E id \in IDs, file \in ReloadFiles : ReloadAsset(id, file)
    \/ \E id \in IDs : DestroyAsset(id)
    \/ \E id \in IDs : IsAssetLoaded(id)
    \/ \E id \in IDs, callback \in CallbackFns :
            RegisterAssetReloadCallback(id, callback)
    \/ \E paths \in PathLists :
            \E files \in [1..Len(paths) -> ReloadFiles] : WatchForChanges(paths, files)
    \/ Continue

Spec == Init /\ [][Next]_vars

\* the manager's batch reload: assets loaded, callbacks registered, assets
\* destroyed, and calls of watch_for_changes
BatchNext ==
    \/ \E id \in IDs, file_path \in ShaderPaths : LoadAsset(id, file_path, "good_glsl")
    \/ \E id \in IDs, callback \in CallbackFns :
            RegisterAssetReloadCallback(id, callback)
    \/ \E id \in IDs : DestroyAsset(id)
    \/ \E paths \in PathLists :
            \E files \in [1..Len(paths) -> BatchFiles] : WatchForChanges(paths, files)
    \/ Continue

SpecBatch == Init /\ [][BatchNext]_vars

\* the manager's callback lists: assets loaded and destroyed, callbacks
\* registered for IDs that are loaded and for IDs that are not
CallbacksNext ==
    \/ \E id \in IDs, file_path \in ShaderPaths : LoadAsset(id, file_path, "good_glsl")
    \/ \E id \in IDs, callback \in CallbackFns :
            RegisterAssetReloadCallback(id, callback)
    \/ \E id \in IDs : DestroyAsset(id)
    \/ Continue

SpecCallbacks == Init /\ [][CallbacksNext]_vars

\* loads of any path over any file, failing ones included, into a manager
\* with callbacks registered and assets destroyed
LoadNext ==
    \/ \E id \in IDs, file_path \in Paths, file \in FileStates :
            LoadAsset(id, file_path, file)
    \/ \E id \in IDs, callback \in CallbackFns :
            RegisterAssetReloadCallback(id, callback)
    \/ \E id \in IDs : DestroyAsset(id)
    \/ Continue

SpecLoad == Init /\ [][LoadNext]_vars

\* the manager's loading, reloading and destroying, under any caller
ManagerNext ==
    \/ \E id \in IDs, file_path \in Paths, file \in FileStates :
            LoadAsset(id, file_path, file)
    \/ \E id \in IDs : GetAsset(id)
    \/ \E id \in IDs, file \in FileStates : ReloadAsset(id, file)
    \/ \E id \in IDs : DestroyAsset(id)
    \/ \E id \in IDs : IsAssetLoaded(id)
    \/ Continue

SpecManager == Init /\ [][ManagerNext]_vars

\* the watcher alone: main's tick over a manager without assets, calls of the
\* watcher's operations between ticks, and the observer thread
WatcherNext ==
    \/ GetStalePaths
    \/ ClearStalePaths
    \/ Continue
    \/ TickDrain
    \/ \E files \in [1..Len(file_paths_to_asset_ids(Mgr, snapshot)) -> FileStates] :
            TickReload(files)
    \/ TickClear
    \/ \E event \in Events : Observe(event)

SpecWatcher == Init /\ [][WatcherNext]_vars

\* main: assets loaded and callbacks registered, then hot-reload ticks, with
\* the observer thread running beside it
MainNext ==
    \/ \E id \in IDs, file_path \in ShaderPaths : LoadAsset(id, file_path, "good_glsl")
    \/ \E id \in IDs, callback \in CallbackFns :
            RegisterAssetReloadCallback(id, callback)
    \/ \E id \in IDs : DestroyAsset(id)
    \/ Continue
    \/ TickDrain
    \/ \E files \in [1..Len(file_paths_to_asset_ids(Mgr, snapshot)) -> ReloadFiles] :
            TickReload(files)
    \/ TickClear
    \/ \E event \in ModifyEvents : Observe(event)

SpecMain == Init /\ [][MainNext]_vars

\* the reloads of a tick all succeed
GoodFiles == {"good_glsl"}

\* main's hot-reload tick: one step of the loop body at main.rs:145-155
Tick ==
    \/ TickDrain
    \/ \E files \in [1..Len(file_paths_to_asset_ids(Mgr, snapshot)) -> GoodFiles] :
            TickReload(files)
    \/ TickClear

\* the observer's events on one shader file that change the buffer
FileModifyEvents == {e \in ModifyEvents : Len(e.paths) = 1}

\* the observer delivers an event on one file while the buffer is empty: the
\* files change one at a time, more rarely than main ticks
ObserveOne(event) ==
    /\ stale_paths = <<>>
    /\ Observe(event)

\* main loads each of its assets once, under an ID of its own
MainLoad(id, file_path) ==
    /\ id \notin DOMAIN assets
    /\ LoadAsset(id, file_path, "good_glsl")

\* main with reloads that do not fail: assets loaded and callbacks
\* registered, the ticks of the render loop, the observer thread beside it
LiveNext ==
    \/ \E id \in IDs, file_path \in ShaderPaths : MainLoad(id, file_path)
    \/ \E id \in IDs, callback \in CallbackFns :
            RegisterAssetReloadCallback(id, callback)
    \/ Continue
    \/ Tick
    \/ \E event \in FileModifyEvents : ObserveOne(event)

\* the next step of the main thread towards and in its render loop
MainStep == Continue \/ Tick

\* the render loop of main (loop { ... }, left only on a quit event) runs
\* for ever: the main thread always goes on, and ticks again and again
SpecLive ==
    /\ Init
    /\ [][LiveNext]_vars
    /\ WF_vars(MainStep)

(***************************************************************************)
(* Locks.  reload_asset in two steps, the lock taken and the reload done   *)
(* under it, beside a second thread that holds a clone of every handle     *)
(* (as Program holds its shaders) and locks one cell at a time.            *)
(***************************************************************************)
\* the cells whose Mutex a thread holds
HeldBy(thread) == {h \in DOMAIN heap : heap[h].held = thread}

\* reload_asset up to ptr.lock(): an unknown ID and a poisoned Mutex return
\* at once; otherwise the caller waits for the Mutex and takes it
ReloadAssetLock(id) ==
    /\ Idle
    /\ IF id \in DOMAIN assets /\ ~heap[assets[id]].poisoned
       THEN LET locks == reload_asset_lock(Mgr, id) IN
            /\ \A h \in locks : heap[h].held = ""
            /\ heap' = [h \in DOMAIN heap |->
                            IF h \in locks THEN [heap[h] EXCEPT !.held = "manager"]
                            ELSE heap[h]]
            /\ tick_pc' = "reload_asset"
            /\ UNCHANGED <<assets, callbacks, asset_file_paths,
                           file_path_to_asset_id_map, gl_shaders, fired, ret>>
       ELSE LET r == reload_asset(Mgr, id, "unreadable") IN
            /\ SetMgr(r.m)
            /\ ret' = Returned("reload_asset", id, EmptyStr, r.res, 0, <<>>)
            /\ UNCHANGED tick_pc
    /\ UNCHANGED <<stale_paths, snapshot>>

\* reload_asset from asset.reload() to its return, where the guard is dropped
ReloadAssetBody(id, file) ==
    /\ tick_pc = "reload_asset"
    /\ id \in DOMAIN assets
    /\ heap[assets[id]].held = "manager"
    /\ GlAvailable(file)
    /\ LET r == reload_asset(Mgr, id, file) IN
       /\ SetMgr([r.m EXCEPT !.heap =
                    [h \in DOMAIN r.m.heap |->
                        IF r.m.heap[h].held = "manager"
                        THEN [r.m.heap[h] EXCEPT !.held = ""] ELSE r.m.heap[h]]])
       /\ ret' = Returned("reload_asset", id, EmptyStr, r.res, 0, <<>>)
    /\ tick_pc' = "idle"
    /\ UNCHANGED <<stale_paths, snapshot>>

\* the second thread: handle.lock() on an unpoisoned Mutex, waiting for it
HandleLock(h) ==
    /\ HeldBy("consumer") = {}
    /\ heap[h].held = ""
    /\ ~heap[h].poisoned
    /\ heap' = [heap EXCEPT ![h].held = "consumer"]
    /\ UNCHANGED <<assets, callbacks, asset_file_paths, file_path_to_asset_id_map,
                   gl_shaders, stale_paths, tick_pc, snapshot, fired, ret>>

\* the second thread: asset.reload() through the guard
HandleReload(h, file) ==
    /\ heap[h].held = "consumer"
    /\ GlAvailable(file)
    /\ LET r == Shader_reload(heap[h].data, file, gl_shaders) IN
       /\ heap' = [heap EXCEPT ![h].data = r.shader]
       /\ gl_shaders' = r.gl
    /\ UNCHANGED <<assets, callbacks, asset_file_paths, file_path_to_asset_id_map,
                   stale_paths, tick_pc, snapshot, fired, ret>>

\* the second thread drops the guard
HandleUnlock(h) ==
    /\ heap[h].held = "consumer"
    /\ heap' = [heap EXCEPT ![h].held = ""]
    /\ UNCHANGED <<assets, callbacks, asset_file_paths, file_path_to_asset_id_map,
                   gl_shaders, stale_paths, tick_pc, snapshot, fired, ret>>

\* the second thread panics while it holds the guard: the guard is dropped
\* in the unwinding and the Mutex is poisoned
HandlePanic(h) ==
    /\ heap[h].held = "consumer"
    /\ heap' = [heap EXCEPT ![h].held = "", ![h].poisoned = TRUE]
    /\ UNCHANGED <<assets, callbacks, asset_file_paths, file_path_to_asset_id_map,
                   gl_shaders, stale_paths, tick_pc, snapshot, fired, ret>>

\* the manager's calls that lock a cell, beside the second thread
LocksNext ==
    \/ \E id \in IDs, file_path \in ShaderPaths : LoadAsset(id, file_path, "good_glsl")
    \/ \E id \in IDs : ReloadAssetLock(id)
    \/ \E id \in IDs, file \in BatchFiles : ReloadAssetBody(id, file)
    \/ \E id \in IDs : DestroyAsset(id)
    \/ \E id \in IDs : IsAssetLoaded(id)
    \/ Continue
    \/ \E h \in DOMAIN heap : HandleLock(h)
    \/ \E h \in DOMAIN heap, file \in BatchFiles : HandleReload(h, file)
    \/ \E h \in DOMAIN heap : HandleUnlock(h)
    \/ \E h \in DOMAIN heap : HandlePanic(h)

SpecLocks == Init /\ [][LocksNext]_vars

\* the shaders of the Program that main builds: the handles of the assets it
\* has loaded
Program_shaders == DOMAIN heap

\* run_asset_reload_callbacks keeping the guard of the reloaded asset until
\* it returns (reload_asset handing the guard back instead of dropping it)
RunReloadReturn_keeping_guard(id, file) ==
    /\ tick_pc = "reload_asset"
    /\ id \in DOMAIN assets
    /\ heap[assets[id]].held = "manager"
    /\ GlAvailable(file)
    /\ LET r == reload_asset(Mgr, id, file) IN
       /\ SetMgr(r.m)
       /\ IF r.res.tag = "Ok"
          THEN /\ ret' = Returned("reload_asset", id, EmptyStr, r.res, 0, <<>>)
               /\ tick_pc' = "callbacks"
          ELSE /\ ret' = Returned("run_asset_reload_callbacks", id, EmptyStr,
                                  r.res, 0, <<>>)
               /\ tick_pc' = "idle"
    /\ UNCHANGED <<stale_paths, snapshot>>

\* run_asset_reload_callbacks, from asset.reload() inside its reload_asset
\* to the return of reload_asset, where the guard is dropped: an Err is
\* returned at once, after an Ok the callbacks are next
RunReloadReturn(id, file) ==
    /\ tick_pc = "reload_asset"
    /\ id \in DOMAIN assets
    /\ heap[assets[id]].held = "manager"
    /\ GlAvailable(file)
    /\ LET r == reload_asset(Mgr, id, file) IN
       /\ SetMgr([r.m EXCEPT !.heap =
                    [h \in DOMAIN r.m.heap |->
                        IF r.m.heap[h].held = "manager"
                        THEN [r.m.heap[h] EXCEPT !.held = ""] ELSE r.m.heap[h]]])
       /\ IF r.res.tag = "Ok"
          THEN /\ ret' = Returned("reload_asset", id, EmptyStr, r.res, 0, <<>>)
               /\ tick_pc' = "callbacks"
          ELSE /\ ret' = Returned("run_asset_reload_callbacks", id, EmptyStr,
                                  r.res, 0, <<>>)
               /\ tick_pc' = "idle"
    /\ UNCHANGED <<stale_paths, snapshot>>

\* for func in callbacks { func(); }: the next callback of `id` runs.  As
\* main registers them, a callback is Program::reload, which locks each
\* shader of the program in turn (waiting for its Mutex) and unlocks it
InvokeCallback(id) ==
    /\ tick_pc = "callbacks"
    /\ ret.id = id
    /\ id \in DOMAIN callbacks
    /\ Len(fired) < Len(callbacks[id])
    /\ \A h \in Program_shaders : heap[h].held = ""
    /\ fired' = Append(fired, <<id, callbacks[id][Len(fired) + 1]>>)
    /\ UNCHANGED <<assets, callbacks, asset_file_paths, file_path_to_asset_id_map,
                   heap, gl_shaders, stale_paths, tick_pc, snapshot, ret>>

\* run_asset_reload_callbacks returns Ok(Some(())) after the last callback
RunReturn(id) ==
    /\ tick_pc = "callbacks"
    /\ ret.id = id
    /\ id \in DOMAIN callbacks => Len(fired) = Len(callbacks[id])
    /\ ret' = Returned("run_asset_reload_callbacks", id, EmptyStr,
                       Ok("Some(())"), 0, <<>>)
    /\ tick_pc' = "idle"
    /\ UNCHANGED <<mgr_vars, stale_paths, snapshot>>

\* run_asset_reload_callbacks step by step on the tick thread, with main's
\* callbacks, beside a second thread that locks and unlocks handles
CallbackLocksNext ==
    \/ \E id \in IDs, file_path \in ShaderPaths : LoadAsset(id, file_path, "good_glsl")
    \/ \E id \in IDs, callback \in CallbackFns :
            RegisterAssetReloadCallback(id, callback)
    \/ \E id \in IDs : ReloadAssetLock(id)
    \/ \E id \in IDs, file \in ReloadFiles : RunReloadReturn(id, file)
    \/ \E id \in IDs : InvokeCallback(id)
    \/ \E id \in IDs : RunReturn(id)
    \/ Continue
    \/ \E h \in DOMAIN heap : HandleLock(h)
    \/ \E h \in DOMAIN heap : HandleUnlock(h)

SpecCallbackLocks == Init /\ [][CallbackLocksNext]_vars

\* the manager's calls on assets whose Mutex a panicking holder may have
\* poisoned
PoisonNext ==
    \/ \E id \in IDs, file_path \in ShaderPaths : LoadAsset(id, file_path, "good_glsl")
    \/ \E id \in IDs, callback \in CallbackFns :
            RegisterAssetReloadCallback(id, callback)
    \/ \E id \in IDs, file \in ReloadFiles : ReloadAsset(id, file)
    \/ \E id \in IDs : DestroyAsset(id)
    \/ \E id \in IDs : IsAssetLoaded(id)
    \/ Continue
    \/ \E h \in DOMAIN heap : HandleLock(h)
    \/ \E h \in DOMAIN heap : HandleUnlock(h)
    \/ \E h \in DOMAIN heap : HandlePanic(h)

SpecPoison == Init /\ [][PoisonNext]_vars

(***************************************************************************)
(* The claims.                                                             *)
(***************************************************************************)
Range(seq) == {seq[i] : i \in 1..Len(seq)}

\* the paths the observer appended since the tick's get_stale_paths: in a
\* tick the buffer is the snapshot followed by them
LatePaths == SubSeq(stale_paths, Len(snapshot) + 1, Len(stale_paths))

\* C2: a path the observer appends after the tick's get_stale_paths and
\* before its clear_stale_paths is still buffered when the tick ends, so that
\* the next get_stale_paths returns it.
C2_LateEventDeferred ==
    [][TickClear => \A i \in 1..Len(LatePaths) :
                        LatePaths[i] \in Range(stale_paths')]_vars

\* C10: get_stale_paths returns the buffer and leaves it as it is, so a
\* second call right after it returns the same sequence; after
\* clear_stale_paths it returns the empty sequence.
C10_GetStalePathsReadOnly ==
    [][/\ GetStalePaths =>
            /\ ret'.paths = stale_paths
            /\ stale_paths' = stale_paths
            /\ get_stale_paths(stale_paths').paths = ret'.paths
       /\ TickDrain =>
            /\ snapshot' = stale_paths
            /\ stale_paths' = stale_paths
       /\ ClearStalePaths => get_stale_paths(stale_paths').paths = <<>>]_vars

\* C10 witness: get_stale_paths has returned a buffer that holds paths
C10_Witness ==
    /\ ret.op = "get_stale_paths"
    /\ ret.paths # <<>>
    /\ stale_paths = ret.paths

\* the paths of the reverse index that resolve to an asset ID
PathsOf(id) ==
    {p \in DOMAIN file_path_to_asset_id_map : file_path_to_asset_id_map[p] = id}

\* C1: the forward map and the reverse index are consistent: every ID of the
\* forward map has exactly one path of the reverse index resolving to it, and
\* every path of the reverse index resolves to an ID of the forward map.
C1_MapsConsistent ==
    /\ \A id \in DOMAIN assets : Cardinality(PathsOf(id)) = 1
    /\ \A p \in DOMAIN file_path_to_asset_id_map :
            file_path_to_asset_id_map[p] \in DOMAIN assets

\* the handles of the forward map
Registered_handles == {assets[id] : id \in DOMAIN assets}

\* C4: a reload that fails on a loaded asset leaves the asset as it was: it
\* is still registered under its ID, in the same cell, still loaded, with the
\* shader object and the source path it had.
C4_FailedReloadKeepsState ==
    [][\A id \in DOMAIN assets, file \in FileStates :
            (ReloadAsset(id, file) /\ ret'.res.tag = "Err") =>
                /\ assets' = assets
                /\ file_path_to_asset_id_map' = file_path_to_asset_id_map
                /\ heap'[assets[id]].data = heap[assets[id]].data
                /\ is_asset_loaded(Mgr, id).res = Ok("Some(true)")
                /\ is_asset_loaded(Mgr, id).res' = Ok("Some(true)")]_vars

\* C4 witness: a reload of a registered, loaded asset has failed
C4_Witness ==
    /\ ret.op = "reload_asset"
    /\ ret.res.tag = "Err"
    /\ ret.id \in DOMAIN assets
    /\ heap[assets[ret.id]].data.is_loaded

\* C5: every asset that is loaded is reachable from the forward map: loading
\* under an ID that is present destroys the asset registered before.
C5_NoLoadedAssetOrphaned ==
    \A h \in 1..Len(heap) :
        heap[h].data.is_loaded => h \in Registered_handles

\* C6: after destroy_asset(id) has succeeded, id is not in the forward map,
\* no path of the reverse index resolves to id, and id has no callback list.
C6_DestroyRemovesAll ==
    (ret.op = "destroy_asset" /\ ret.res = Ok("Some(())")) =>
        /\ ret.id \notin DOMAIN assets
        /\ PathsOf(ret.id) = {}
        /\ ret.id \notin DOMAIN callbacks

\* C9: after load_asset(a, p) has succeeded, get_asset(a) returns the handle
\* load_asset returned, the asset's source path is the canonical form of p,
\* and the reverse index resolves that canonical path to a.
C9_LoadGetRoundTrip ==
    (ret.op = "load_asset" /\ ret.res.tag = "Ok") =>
        /\ get_asset(Mgr, ret.id).res.tag = "Some"
        /\ get_asset(Mgr, ret.id).handle = ret.handle
        /\ Shader_get_src_file_path(heap[ret.handle].data) = Canonical(ret.path)
        /\ Canonical(ret.path) \in DOMAIN file_path_to_asset_id_map
        /\ file_path_to_asset_id_map[Canonical(ret.path)] = ret.id

\* the calls that reloading `id` once makes when its callbacks are run
CallbacksOf(id) ==
    InvokeAll(<<>>, id, IF id \in DOMAIN callbacks THEN callbacks[id] ELSE <<>>)

\* C3: when reload_asset(id) has succeeded on a loaded ID, the callbacks
\* registered for id have each been invoked once, in registration order,
\* before the call returned.
C3_ReloadInvokesCallbacks ==
    (ret.op = "reload_asset" /\ ret.res = Ok("Some(())")) =>
        fired = CallbacksOf(ret.id)

\* C7: reload_asset, destroy_asset and is_asset_loaded of an ID that is not
\* in the forward map return Ok(None) and leave the forward map, the reverse
\* index, the callback lists, the cells and the GL context as they are.
C7_UnknownIdSoftResult ==
    [][(/\ Idle
        /\ ret'.op \in {"reload_asset", "destroy_asset", "is_asset_loaded"}
        /\ ret'.id \notin DOMAIN assets) =>
            /\ ret'.res = Ok("None")
            /\ assets' = assets
            /\ file_path_to_asset_id_map' = file_path_to_asset_id_map
            /\ asset_file_paths' = asset_file_paths
            /\ callbacks' = callbacks
            /\ heap' = heap
            /\ gl_shaders' = gl_shaders
            /\ fired' = <<>>]_vars

\* C7 witness: destroy_asset of an unknown ID that has callbacks registered
\* has returned Ok(None), beside a loaded asset
C7_Witness ==
    /\ ret.op = "destroy_asset"
    /\ ret.res = Ok("None")
    /\ ret.id \notin DOMAIN assets
    /\ ret.id \in DOMAIN callbacks
    /\ DOMAIN assets # {}

\* the source path of the asset registered under `id`
SrcPath(id) == Shader_get_src_file_path(heap[assets[id]].data)

\* the registered assets are loaded from distinct files
DistinctPaths ==
    \A a, b \in DOMAIN assets :
        a # b => Canonical(SrcPath(a)) # Canonical(SrcPath(b))

\* C8: with the assets loaded from distinct files, a tick that has drained
\* only the path of asset v, and whose reloads succeed, runs v's callbacks
\* and no other (once for a single path, with v's shader object replaced)
\* and leaves the cell of every other asset as it was.
C8_SelectiveReload ==
    [][\A v \in DOMAIN assets :
            (/\ tick_pc = "reload" /\ tick_pc' = "clear"
             /\ DistinctPaths
             /\ snapshot # <<>>
             /\ Range(snapshot) = {Canonical(SrcPath(v))}) =>
                /\ \A i \in 1..Len(fired') : fired'[i][1] = v
                /\ Len(fired') = Len(snapshot) * Len(CallbacksOf(v))
                /\ Len(snapshot) = 1 =>
                        /\ fired' = CallbacksOf(v)
                        /\ Shader_get_shader_id(heap'[assets[v]].data)
                                # Shader_get_shader_id(heap[assets[v]].data)
                /\ \A f \in DOMAIN assets \ {v} :
                        heap'[assets[f]] = heap[assets[f]]]_vars

\* the entries of xs at the positions where `paths` has a path of the
\* reverse index
RECURSIVE KeepResolved(_, _)
KeepResolved(paths, xs) ==
    IF paths = <<>> THEN <<>>
    ELSE (IF Head(paths) \in DOMAIN file_path_to_asset_id_map
          THEN <<Head(xs)>> ELSE <<>>) \o KeepResolved(Tail(paths), Tail(xs))

\* a batch that a call of watch_for_changes can be given in this state
Batch(paths, files) ==
    /\ paths \in PathLists
    /\ files \in [1..Len(paths) -> BatchFiles]
    /\ \A i \in 1..Len(files) : GlAvailable(files[i])

\* C11: watch_for_changes skips a stale path that the reverse index does not
\* hold: between two calls, for every batch, the call returns, reloads and
\* invokes what it does for the batch without its unmatched paths, and a batch
\* of unmatched paths alone returns Ok and changes nothing.
C11_UnmatchedPathSkipped ==
    Idle =>
        \A paths \in PathLists : \A files \in [1..Len(paths) -> BatchFiles] :
            Batch(paths, files) =>
                LET r == watch_for_changes(Mgr, paths, files)
                    s == watch_for_changes(Mgr, KeepResolved(paths, paths),
                                           KeepResolved(paths, files))
                IN  /\ r = s
                    /\ KeepResolved(paths, paths) = <<>> =>
                            /\ r.res = Ok("()")
                            /\ r.m = Mgr

\* C11 witness: watch_for_changes has returned Ok for a batch of an unmatched
\* path followed by the path of an asset, whose callback it has invoked
C11_Witness ==
    /\ ret.op = "watch_for_changes"
    /\ ret.res = Ok("()")
    /\ Len(ret.paths) = 2
    /\ ret.paths[1] \notin DOMAIN file_path_to_asset_id_map
    /\ ret.paths[2] \in DOMAIN file_path_to_asset_id_map
    /\ fired # <<>>

\* C12: when a reload of the batch fails, watch_for_changes returns
\* AssetReloadError naming the ID whose reload failed, with the reloads and
\* callbacks of the paths before it done, and nothing reloaded or invoked
\* for the failing ID and the paths after it.
C12_FirstErrorAbortsBatch ==
    Idle =>
        \A paths \in PathLists : \A files \in [1..Len(paths) -> BatchFiles] :
            LET r == watch_for_changes(Mgr, paths, files) IN
            (Batch(paths, files) /\ r.res.tag = "Err") =>
                \E k \in 1..Len(paths) :
                    LET before == watch_for_changes(Mgr, SubSeq(paths, 1, k - 1),
                                                    SubSeq(files, 1, k - 1))
                    IN  /\ before.res = Ok("()")
                        /\ paths[k] \in DOMAIN file_path_to_asset_id_map
                        /\ reload_asset(before.m,
                                        file_path_to_asset_id_map[paths[k]],
                                        files[k]).res.tag = "Err"
                        /\ r.res = Err("AssetReloadError")
                        /\ r.failed = file_path_to_asset_id_map[paths[k]]
                        /\ r.m = before.m

\* C13: while reload_asset holds the lock of the asset it reloads, it holds
\* no other cell's lock: a thread with a handle to another cell locks that
\* cell without waiting and can reload it, and each thread that holds a lock
\* can go on to release it, so the two reloads never wait for each other.
C13_ReloadLocksOnlyItsCell ==
    tick_pc = "reload_asset" =>
        \E id \in DOMAIN assets :
            /\ HeldBy("manager") = {assets[id]}
            /\ ENABLED ReloadAssetBody(id, "unreadable")
            /\ \A b \in DOMAIN heap \ {assets[id]} :
                    /\ (~heap[b].poisoned /\ HeldBy("consumer") = {}) =>
                            ENABLED HandleLock(b)
                    /\ heap[b].held = "consumer" =>
                            /\ ENABLED HandleReload(b, "unreadable")
                            /\ ENABLED HandleUnlock(b)

\* C13 witness: reload_asset holds the lock of one asset while the second
\* thread holds the lock of another loaded asset
C13_Witness ==
    /\ tick_pc = "reload_asset"
    /\ \E a \in HeldBy("manager"), b \in HeldBy("consumer") :
            /\ a # b
            /\ heap[a].data.is_loaded
            /\ heap[b].data.is_loaded
            /\ b \in Registered_handles

\* C14: no operation of the manager takes a cell away from the holder of a
\* handle, whether or not an ID is still registered for it; reload_asset,
\* succeeding or failing, leaves the ID registered for the cell it was
\* registered for, so that get_asset returns the handle held before, and
\* after a successful reload that cell holds the new, live shader object.
C14_HandleStability ==
    [][/\ \A h \in DOMAIN heap :
            /\ h \in DOMAIN heap'
            /\ heap'[h].data.kind = heap[h].data.kind
       /\ \A id \in DOMAIN assets :
            (Idle /\ ret'.op = "reload_asset" /\ ret'.id = id) =>
                LET h == assets[id] IN
                /\ assets' = assets
                /\ get_asset(Mgr, id).handle = h
                /\ get_asset(Mgr, id).handle' = h
                /\ ret'.res = Ok("Some(())") =>
                        /\ Shader_get_shader_id(heap'[h].data) \in gl_shaders'
                        /\ Shader_get_shader_id(heap'[h].data)
                                # Shader_get_shader_id(heap[h].data)
                        /\ Shader_get_shader_id(heap[h].data) \notin gl_shaders'
                        /\ Shader_is_loaded(heap'[h].data)]_vars

\* C14 witness: reload_asset has succeeded on an asset whose cell is not the
\* only one: another ID' cell, or the cell the ID had before, is still there
C14_Witness ==
    /\ ret.op = "reload_asset"
    /\ ret.res = Ok("Some(())")
    /\ ret.id \in DOMAIN assets
    /\ Len(heap) > 1
    /\ \E h \in DOMAIN heap : h \notin Registered_handles

\* C15: reload_asset, destroy_asset and is_asset_loaded of an ID whose Mutex
\* is poisoned return the error Poisoned and leave the forward map, the
\* reverse index, the callback lists and the cells as they are.
C15_PoisonedLockReported ==
    [][\A id \in DOMAIN assets :
            (/\ Idle
             /\ heap[assets[id]].poisoned
             /\ ret'.op \in {"reload_asset", "destroy_asset", "is_asset_loaded"}
             /\ ret'.id = id) =>
                /\ ret'.res = Err("Poisoned")
                /\ assets' = assets
                /\ file_path_to_asset_id_map' = file_path_to_asset_id_map
                /\ asset_file_paths' = asset_file_paths
                /\ callbacks' = callbacks
                /\ heap' = heap
                /\ gl_shaders' = gl_shaders]_vars

\* C15 witness: destroy_asset has returned Poisoned for a registered ID with
\* a callback list, whose Mutex a panicking holder has poisoned
C15_Witness ==
    /\ ret.op = "destroy_asset"
    /\ ret.res = Err("Poisoned")
    /\ ret.id \in DOMAIN assets
    /\ ret.id \in DOMAIN callbacks
    /\ heap[assets[ret.id]].poisoned

\* the callback list of an ID in a callback map, empty when it has none
ListOf(cbs, id) == IF id \in DOMAIN cbs THEN cbs[id] ELSE <<>>

\* C16: register_asset_reload_callback(id, cb) appends cb at the end of id's
\* callback list and keeps the callbacks registered before in their places,
\* whether or not id is in the forward map; the forward map, the reverse
\* index, the cells and the callback lists of the other IDs stay as they are.
C16_RegisterAppends ==
    [][\A id \in IDs, cb \in CallbackFns :
            (/\ ret'.op = "register_asset_reload_callback"
             /\ RegisterAssetReloadCallback(id, cb)) =>
                /\ callbacks'[id] = Append(ListOf(callbacks, id), cb)
                /\ DOMAIN callbacks' = DOMAIN callbacks \cup {id}
                /\ \A other \in DOMAIN callbacks \ {id} :
                        callbacks'[other] = callbacks[other]
                /\ assets' = assets
                /\ file_path_to_asset_id_map' = file_path_to_asset_id_map
                /\ asset_file_paths' = asset_file_paths
                /\ heap' = heap
                /\ gl_shaders' = gl_shaders]_vars

\* C16 witness: a second callback has been registered, after another one,
\* for an ID that is not in the forward map, beside the list of another ID
C16_Witness ==
    /\ ret.op = "register_asset_reload_callback"
    /\ ret.id \notin DOMAIN assets
    /\ ListOf(callbacks, ret.id) = <<"cb1", "cb2">>

\* C17: a callback is invoked only after a successful reload of a resource
\* that is loaded under the callback's ID: every call that the log of a
\* batch reload holds is for an ID of the forward map, and a batch that
\* stopped at its first path has invoked nothing.
C17_CallbackOnlyForLoaded ==
    /\ \A i \in 1..Len(fired) : fired[i][1] \in DOMAIN assets
    /\ (/\ ret.op = "watch_for_changes"
        /\ ret.res.tag = "Err"
        /\ Len(ret.paths) = 1) => fired = <<>>

\* the kinds of event that report a change of a file's content: notify's
\* Modify(Data(_)) and its catch-all Modify(Any)
ContentModified == {"Modify(Any)", "Modify(Data)"}

\* C18: delivered to the observer's callback, an event of a content-modified
\* kind has all its paths appended at the tail of the stale-path buffer, in
\* the event's order; a creation, deletion, rename or error event leaves the
\* buffer as it is.
C18_ObserverFiltersEvents ==
    \A event \in Events :
        ENABLED Observe(event) =>
            ENABLED (/\ Observe(event)
                     /\ stale_paths' = IF event.kind \in ContentModified
                                        THEN stale_paths \o event.paths
                                        ELSE stale_paths)

ModifiedPending(id) ==
    /\ id \in DOMAIN assets
    /\ id \in DOMAIN callbacks
    /\ Canonical(SrcPath(id)) \in Range(stale_paths)

\* C20: with the main thread ticking for ever and reloads that do not fail,
\* once the observer has buffered a content-modified event on the source file
\* of a loaded asset, this asset is eventually reloaded and its callbacks
\* run, whether it was loaded from a relative or from an absolute path.
C20_ModifiedAssetEventuallyReloaded ==
    \A id \in IDs :
        ModifiedPending(id) ~> (\E j \in 1..Len(fired) : fired[j][1] = id)

\* the calls of callbacks that reloading the IDs `ids` in order makes
RECURSIVE FiredFor(_)
FiredFor(ids) ==
    IF ids = <<>> THEN <<>>
    ELSE CallbacksOf(Head(ids)) \o FiredFor(Tail(ids))

\* xs is the beginning of ys
IsPrefix(xs, ys) == Len(xs) <= Len(ys) /\ SubSeq(ys, 1, Len(xs)) = xs

\* C21: within a tick the buffer is cleared only after the resolve and reload
\* step has gone through the whole drained snapshot: the buffer shrinks only
\* in the tick's last step, which is reached only when reload_assets_by_id
\* has returned Ok after running the callbacks of every ID the snapshot
\* resolves to; during the resolve and reload step the buffer only grows, and
\* once that step has ended in an error the buffer is never cleared.
C21_ClearOnlyAfterReloads ==
    [][/\ ~IsPrefix(stale_paths, stale_paths') => tick_pc = "clear"
       /\ tick_pc = "clear" =>
            /\ ret.op = "reload_assets_by_id"
            /\ ret.res = Ok("()")
            /\ fired = FiredFor(file_paths_to_asset_ids(Mgr, snapshot))
       /\ tick_pc \in {"reload", "panicked"} => IsPrefix(stale_paths, stale_paths')
       /\ tick_pc = "panicked" => tick_pc' = "panicked"]_vars

\* C21 witness: a tick that drained two paths has reloaded an asset and run
\* its callback, and is about to clear the buffer
C21_Witness ==
    /\ tick_pc = "clear"
    /\ Len(snapshot) = 2
    /\ fired # <<>>
    /\ stale_paths # <<>>
    /\ ENABLED TickClear

\* C22: a buffered change is processed in one drain cycle only: after
\* watch_for_changes has reloaded the assets of its buffered paths, a second
\* call with no event in between finds nothing to process: it reloads no
\* asset and invokes no callback.
C22_ProcessedOnce ==
    Idle =>
        \A paths \in PathLists : \A files \in [1..Len(paths) -> GoodFiles] :
            Batch(paths, files) =>
                LET first == watch_for_changes(Mgr, paths, files)
                    second == watch_for_changes([first.m EXCEPT !.fired = <<>>],
                                                stale_asset_paths_after(paths),
                                                files)
                IN  first.res = Ok("()") =>
                        /\ second.m.fired = <<>>
                        /\ second.m.heap = first.m.heap

\* a resource without the name of its shader object
Unnamed(cell) == [cell EXCEPT !.data.shader_id = 0]

\* C23: duplicates are idempotent: a batch reload whose buffer holds the path
\* of an asset twice leaves the manager's maps and the asset (up to the name
\* of its shader object) as a batch reload with the path once does, and has
\* invoked the asset's callbacks as often.
C23_DuplicatesIdempotent ==
    Idle =>
        \A p \in DOMAIN file_path_to_asset_id_map :
            (Batch(<<p, p>>, <<"good_glsl", "good_glsl">>)
                    /\ file_path_to_asset_id_map[p] \in DOMAIN assets) =>
                LET once == watch_for_changes(Mgr, <<p>>, <<"good_glsl">>)
                    twice == watch_for_changes(Mgr, <<p, p>>,
                                               <<"good_glsl", "good_glsl">>)
                    h == assets[file_path_to_asset_id_map[p]]
                IN  /\ twice.res = once.res
                    /\ twice.m.assets = once.m.assets
                    /\ twice.m.callbacks = once.m.callbacks
                    /\ twice.m.file_path_to_asset_id_map
                            = once.m.file_path_to_asset_id_map
                    /\ Unnamed(twice.m.heap[h]) = Unnamed(once.m.heap[h])
                    /\ twice.m.fired = once.m.fired

\* C24: the watcher only reports facts: a step of the observer thread leaves
\* the forward map, the reverse index, the callback lists, the resources and
\* the GL context as they are and invokes no callback; the buffer is the
\* only state it writes, and a callback is invoked only in the reload step
\* of a tick, never between an event's arrival and that step.
C24_WatcherOnlyReports ==
    [][/\ \A event \in ModifyEvents :
            Observe(event) =>
                /\ assets' = assets
                /\ file_path_to_asset_id_map' = file_path_to_asset_id_map
                /\ asset_file_paths' = asset_file_paths
                /\ callbacks' = callbacks
                /\ heap' = heap
                /\ gl_shaders' = gl_shaders
                /\ fired' = fired
                /\ snapshot' = snapshot
       /\ (fired' # fired /\ fired' # <<>>) => tick_pc = "reload"
       /\ (\E h \in DOMAIN heap : heap'[h] # heap[h]) =>
                (tick_pc = "reload" \/ ret'.op = "destroy_asset")]_vars

\* C24 witness: the observer has buffered an event on the source file of a
\* loaded asset that has a callback; no tick has drained it yet, and no
\* callback has been invoked
C24_Witness ==
    /\ tick_pc = "idle"
    /\ snapshot = <<>>
    /\ fired = <<>>
    /\ \E i \in 1..Len(stale_paths) :
            /\ stale_paths[i] \in DOMAIN file_path_to_asset_id_map
            /\ file_path_to_asset_id_map[stale_paths[i]] \in DOMAIN assets
            /\ file_path_to_asset_id_map[stale_paths[i]] \in DOMAIN callbacks

\* C25: while the callbacks of a reloaded asset run, the tick thread holds
\* the lock of no resource: reload_asset has dropped its guard before the
\* first callback, so the next callback, which locks the shaders of the
\* program, runs as soon as no other thread holds one of them, and the call
\* never stops for good.
C25_LockReleasedBeforeCallbacks ==
    tick_pc = "callbacks" =>
        /\ HeldBy("manager") = {}
        /\ heap[assets[ret.id]].held # "manager"
        /\ (HeldBy("consumer") = {} /\ Len(fired) < Len(ListOf(callbacks, ret.id)))
                => ENABLED InvokeCallback(ret.id)
        /\ \/ ENABLED InvokeCallback(ret.id)
           \/ ENABLED RunReturn(ret.id)
           \/ \E h \in DOMAIN heap : ENABLED HandleUnlock(h)

\* C25 witness: run_asset_reload_callbacks has returned Ok after two
\* callbacks, each locking the reloaded shader, have run
C25_Witness ==
    /\ ret.op = "run_asset_reload_callbacks"
    /\ ret.res = Ok("Some(())")
    /\ ret.id \in DOMAIN assets
    /\ assets[ret.id] \in Program_shaders
    /\ Len(fired) = 2

\* C26: a load_asset that returns an error (InvalidFileExtension or
\* LoadingFailed) leaves the forward map, the reverse index, the list of
\* tracked file paths, the callback lists and every asset cell as they
\* were: an asset registered under the ID before the call is still
\* registered, in the same cell, and loaded.
C26_FailedLoadLeavesManager ==
    [][(ret.op = "" /\ ret'.op = "load_asset" /\ ret'.res.tag = "Err") =>
          /\ ret'.res \in {Err("InvalidFileExtension"), Err("LoadingFailed")}
          /\ assets' = assets
          /\ file_path_to_asset_id_map' = file_path_to_asset_id_map
          /\ asset_file_paths' = asset_file_paths
          /\ callbacks' = callbacks
          /\ heap' = heap
          /\ fired' = fired
          /\ \A id \in DOMAIN assets :
                is_asset_loaded(Mgr, id).res = Ok("Some(true)") =>
                    /\ id \in DOMAIN assets'
                    /\ ~heap'[assets'[id]].poisoned
                    /\ Shader_is_loaded(heap'[assets'[id]].data)]_vars

\* C26 witness: a load over an ID that is registered, loaded and has a
\* callback has just failed
C26_Witness ==
    /\ ret.op = "load_asset"
    /\ ret.res = Err("LoadingFailed")
    /\ ret.id \in DOMAIN assets
    /\ heap[assets[ret.id]].data.is_loaded
    /\ ret.id \in DOMAIN callbacks
    /\ asset_file_paths # <<>>

\* C27: after any sequence of the manager's operations, is_asset_loaded
\* answers Some(true) for every ID of the forward map and None for every
\* other ID, never Some(false), and an answer it has returned is one of
\* these two.
C27_RegisteredIsLoaded ==
    /\ \A id \in IDs :
            is_asset_loaded(Mgr, id).res =
                IF id \in DOMAIN assets THEN Ok("Some(true)") ELSE Ok("None")
    /\ ret.op = "is_asset_loaded" =>
            /\ ret.res \in {Ok("Some(true)"), Ok("None")}
            /\ ret.res = Ok("Some(true)") <=> ret.id \in DOMAIN assets

\* C27 witness: is_asset_loaded has answered Some(true) for the one ID of
\* the forward map, while the cell of a destroyed asset is not loaded
C27_Witness ==
    /\ ret.op = "is_asset_loaded"
    /\ ret.res = Ok("Some(true)")
    /\ DOMAIN assets = {ret.id}
    /\ \E h \in DOMAIN heap : h # assets[ret.id] /\ ~Shader_is_loaded(heap[h].data)

\* the paths the assets of the forward map were loaded from
LoadedFrom == {heap[assets[id]].data.src_file_path : id \in DOMAIN assets}

\* C28: asset_file_paths holds a path exactly when an asset of the forward
\* map was loaded from it, and holds it once: load_asset adds the path,
\* destroy_asset removes the path of the asset it destroys, and no path of
\* a destroyed or replaced asset stays.
C28_TrackedPathsAreLoadedPaths ==
    /\ \A i \in 1..Len(asset_file_paths) : asset_file_paths[i] \in LoadedFrom
    /\ \A file_path \in LoadedFrom :
            \E i \in 1..Len(asset_file_paths) : asset_file_paths[i] = file_path
    /\ \A i, j \in 1..Len(asset_file_paths) :
            asset_file_paths[i] = asset_file_paths[j] => i = j

====
